---- MODULE Spec2Model ----
(***************************************************************************)
(* Model of backend/simple-server.py: BlackCrossHandler (do_GET, do_POST,  *)
(* do_OPTIONS) served by a single-threaded HTTPServer from run_server.     *)
(*                                                                         *)
(* Text is modelled at token granularity.  A request target (self.path) is *)
(* a sequence of strings in which "/", "?", "#" and ";" are tokens of      *)
(* their own and no other token contains one of them; only origin-form     *)
(* targets that do not begin with "//" occur (http.server collapses a      *)
(* leading "//" before the handler runs).  A request body is a sequence of *)
(* lexical JSON tokens written one after the other without white space;    *)
(* Content-Length and rfile.read count tokens, the positions quoted in     *)
(* exception texts count the characters of the tokens.                     *)
(* A write of json.dumps(v).encode() is the entry [kind |-> "body",        *)
(* json |-> v].  Time is counted in seconds from the epoch; a response     *)
(* carries the reading of the clock that send_response makes for its Date  *)
(* header.                                                                 *)
(***************************************************************************)
EXTENDS Integers, Sequences, FiniteSets, TLC

VARIABLES sys_version, runpc, is_shut_down, shutdown_request, pc, h, conn, first

vars == <<sys_version, runpc, is_shut_down, shutdown_request, pc, h, conn, first>>

(* ------------------------------ bounds -------------------------------- *)

\* time.time() and datetime.now() yield one of the instants 0..MaxTime
MaxTime == 1
\* a Content-Length header announces up to MaxOver tokens more than the body has
MaxOver == 1

(* --------------------------- small helpers ---------------------------- *)

Min(a, b) == IF a < b THEN a ELSE b

\* F(v), with v evaluated once and F given its value
WithValue(v, F(_)) == CHOOSE y \in { F(x) : x \in {v} } : TRUE

\* the text of a token sequence, from token i on / as a whole
RECURSIVE JoinFrom(_, _)
JoinFrom(s, i) == IF i > Len(s) THEN "" ELSE s[i] \o JoinFrom(s, i + 1)

Join(s) == WithValue(s, LAMBDA x : JoinFrom(x, 1))

\* index of the first occurrence of tok in s at or after position i, 0 if none
RECURSIVE Find(_, _, _)
Find(s, tok, i) ==
    IF i > Len(s) THEN 0
    ELSE IF s[i] = tok THEN i
    ELSE Find(s, tok, i + 1)

\* index of the last occurrence of tok in s at or before position i, 0 if none
RECURSIVE RFind(_, _, _)
RFind(s, tok, i) ==
    IF i < 1 THEN 0
    ELSE IF s[i] = tok THEN i
    ELSE RFind(s, tok, i - 1)

\* url.split(sep, 1)[0]
CutAt(s, tok) ==
    LET i == Find(s, tok, 1) IN IF i = 0 THEN s ELSE SubSeq(s, 1, i - 1)

(* ------------------------------ urlparse ------------------------------ *)

\* urllib.parse._splitparams(url)[0]
splitparams(url) ==
    LET slash == RFind(url, "/", Len(url))
        i == IF slash > 0 THEN Find(url, ";", slash) ELSE Find(url, ";", 1)
    IN IF i = 0 THEN url ELSE SubSeq(url, 1, i - 1)

\* urlparse(target).path for a target with no scheme and no netloc:
\* the fragment is split off first, then the query, then the params
urlparse_path(target) ==
    WithValue(CutAt(target, "#"), LAMBDA nofrag :
      WithValue(CutAt(nofrag, "?"), LAMBDA noquery :
        Join(IF Find(noquery, ";", 1) > 0 THEN splitparams(noquery) ELSE noquery)))

(* ------------------------------- modules ------------------------------ *)

modules ==
    << "threat-intelligence", "incident-response", "vulnerability-management",
       "ioc-management", "threat-actors", "threat-feeds", "siem",
       "threat-hunting", "risk-assessment", "collaboration", "reporting",
       "malware-analysis", "dark-web", "compliance", "automation" >>

ModuleSet == { modules[i] : i \in 1..Len(modules) }

(* ----------------------------- JSON tokens ---------------------------- *)

\* lexical tokens of a request body: punctuation, string (its content free
\* of quotes, backslashes and control characters), integer (decimal digits,
\* no sign, no leading zero), float (a number with a fraction or exponent),
\* literal (null, true, false and the three the decoder accepts beside JSON:
\* NaN, Infinity, -Infinity), "junk" (decodable text that begins no JSON
\* lexeme) and "bad" (the byte 0xff, which is not valid UTF-8).  A number
\* token is never directly followed by another number token.
P(c) == [t |-> c, v |-> c]
S(x) == [t |-> "str", v |-> x]
N(x) == [t |-> "int", v |-> x]
F(x) == [t |-> "float", v |-> x]
L(x) == [t |-> "lit", v |-> x]
Junk == [t |-> "junk", v |-> "admin"]
BadByte == [t |-> "bad", v |-> "\\xff"]

\* the number of characters (bytes, the text being ASCII) a token takes
TokLen(k) ==
    CASE k.t = "str" -> Len(k.v) + 2
      [] k.t = "bad" -> 1
      [] OTHER -> Len(k.v)

\* the number of characters before token i
RECURSIVE CharsBefore(_, _)
CharsBefore(toks, i) ==
    IF i <= 1 THEN 0 ELSE CharsBefore(toks, i - 1) + TokLen(toks[i - 1])

\* bytes.decode(): fails on a byte sequence that is not UTF-8
decode_ok(data) == \A i \in 1..Len(data) : data[i].t # "bad"

\* str(e) of the UnicodeDecodeError raised by post_data.decode()
decode_error(data) ==
    LET i == CHOOSE j \in 1..Len(data) :
                 data[j].t = "bad" /\ \A m \in 1..(j - 1) : data[m].t # "bad"
    IN "'utf-8' codec can't decode byte 0xff in position "
       \o ToString(CharsBefore(data, i)) \o ": invalid start byte"

(* ------------------------------ json.loads ---------------------------- *)

\* What limits the decoder: max_digits is sys.get_int_max_str_digits() (0 is
\* no limit), room the number of nested containers the interpreter's
\* recursion limit leaves to the decoder, nan whether NaN, Infinity and
\* -Infinity are accepted.  The interpreter's defaults follow, room being
\* what is left of the limit of 1000 inside do_POST under run_server.
int_max_str_digits == 4300
recursion_room == 985
PythonDecoder ==
    [max_digits |-> int_max_str_digits, room |-> recursion_room, nan |-> TRUE]

NoVal == [ty |-> "none"]

Ok(val, next) == [ok |-> TRUE, val |-> val, next |-> next, exc |-> "", text |-> ""]
Raise(exc, text) == [ok |-> FALSE, val |-> NoVal, next |-> 0, exc |-> exc, text |-> text]

\* json.JSONDecodeError(msg, doc, pos) at the start of token i
JSONDecodeError(toks, msg, i) ==
    LET pos == CharsBefore(toks, i) IN
    Raise("JSONDecodeError",
          msg \o ": line 1 column " \o ToString(pos + 1)
              \o " (char " \o ToString(pos) \o ")")

\* int(text) of an integer literal of too many digits
DigitsError(lim, text) ==
    Raise("ValueError",
          "Exceeds the limit (" \o ToString(lim.max_digits)
          \o " digits) for integer string conversion: value has "
          \o ToString(Len(text))
          \o " digits; use sys.set_int_max_str_digits() to increase the limit")

RecursionError(what) ==
    Raise("RecursionError",
          "maximum recursion depth exceeded while decoding a JSON " \o what
          \o " from a unicode string")

\* the scanner of json.loads, a recursive-descent parse of the token
\* sequence.  parse_value(toks, i, depth, lim) parses one value starting at
\* position i inside depth containers and gives the value and the position
\* after it, or the exception raised.
RECURSIVE parse_value(_, _, _, _)
RECURSIVE parse_elems(_, _, _, _, _)
RECURSIVE parse_members(_, _, _, _, _)

parse_value(toks, i, depth, lim) ==
    IF i > Len(toks) THEN JSONDecodeError(toks, "Expecting value", i)
    ELSE LET k == toks[i] IN
      CASE k.t = "str" -> Ok([ty |-> "str", s |-> k.v], i + 1)
        [] k.t = "int" ->
             IF lim.max_digits > 0 /\ Len(k.v) > lim.max_digits
             THEN DigitsError(lim, k.v)
             ELSE Ok([ty |-> "int", n |-> k.v], i + 1)
        [] k.t = "float" -> Ok([ty |-> "float", n |-> k.v], i + 1)
        [] k.t = "lit" ->
             IF k.v = "null" THEN Ok([ty |-> "NoneType", l |-> k.v], i + 1)
             ELSE IF k.v \in {"true", "false"} THEN Ok([ty |-> "bool", l |-> k.v], i + 1)
             ELSE IF lim.nan /\ k.v \in {"NaN", "Infinity", "-Infinity"}
             THEN Ok([ty |-> "float", n |-> k.v], i + 1)
             ELSE JSONDecodeError(toks, "Expecting value", i)
        [] k.t = "[" ->
             IF depth >= lim.room THEN RecursionError("array")
             ELSE IF i + 1 <= Len(toks) /\ toks[i + 1].t = "]"
             THEN Ok([ty |-> "list", elems |-> <<>>], i + 2)
             ELSE parse_elems(toks, i + 1, <<>>, depth + 1, lim)
        [] k.t = "{" ->
             IF depth >= lim.room THEN RecursionError("object")
             ELSE IF i + 1 <= Len(toks) /\ toks[i + 1].t = "}"
             THEN Ok([ty |-> "dict", items |-> <<>>], i + 2)
             ELSE parse_members(toks, i + 1, <<>>, depth + 1, lim)
        [] OTHER -> JSONDecodeError(toks, "Expecting value", i)

\* the elements of an array after "[" (or after a ","), acc holding those read
parse_elems(toks, i, acc, depth, lim) ==
    WithValue(parse_value(toks, i, depth, lim), LAMBDA r :
      IF ~r.ok THEN r
      ELSE WithValue(Append(acc, r.val), LAMBDA got :
        IF r.next <= Len(toks) /\ toks[r.next].t = "]"
        THEN Ok([ty |-> "list", elems |-> got], r.next + 1)
        ELSE IF r.next > Len(toks) \/ toks[r.next].t # ","
        THEN JSONDecodeError(toks, "Expecting ',' delimiter", r.next)
        ELSE parse_elems(toks, r.next + 1, got, depth, lim)))

\* the members of an object after "{" (or after a ","), acc holding those read
parse_members(toks, i, acc, depth, lim) ==
    IF i > Len(toks) \/ toks[i].t # "str"
    THEN JSONDecodeError(toks, "Expecting property name enclosed in double quotes", i)
    ELSE IF i + 1 > Len(toks) \/ toks[i + 1].t # ":"
    THEN JSONDecodeError(toks, "Expecting ':' delimiter", i + 1)
    ELSE WithValue(parse_value(toks, i + 2, depth, lim), LAMBDA r :
      IF ~r.ok THEN r
      ELSE WithValue(Append(acc, [k |-> toks[i].v, v |-> r.val]), LAMBDA got :
        IF r.next <= Len(toks) /\ toks[r.next].t = "}"
        THEN Ok([ty |-> "dict", items |-> got], r.next + 1)
        ELSE IF r.next > Len(toks) \/ toks[r.next].t # ","
        THEN JSONDecodeError(toks, "Expecting ',' delimiter", r.next)
        ELSE parse_members(toks, r.next + 1, got, depth, lim)))

\* JSONDecoder.decode: one value and nothing after it
json_decode(toks, lim) ==
    WithValue(toks, LAMBDA t :
      WithValue(parse_value(t, 1, 0, lim), LAMBDA r :
        IF r.ok /\ r.next # Len(t) + 1 THEN JSONDecodeError(t, "Extra data", r.next)
        ELSE r))

\* json.loads(text) as the interpreter runs it
json_loads(toks) == json_decode(toks, PythonDecoder)

\* dict.get(key, default) on a parsed object: a repeated key keeps its last value
RECURSIVE LastOf(_, _, _)
LastOf(items, key, i) ==
    IF i < 1 THEN 0
    ELSE IF items[i].k = key THEN i
    ELSE LastOf(items, key, i - 1)

dict_get(obj, key, default) ==
    LET i == LastOf(obj.items, key, Len(obj.items)) IN
    IF i = 0 THEN default ELSE obj.items[i].v

\* str(e) of the AttributeError raised by data.get when data is no dict
attribute_error(val) == "'" \o val.ty \o "' object has no attribute 'get'"

\* Python's value == 'literal': true only of a str with the same text
str_eq(val, text) == val.ty = "str" /\ val.s = text

(* ------------------------- the response stream ------------------------ *)

\* what a handler's calls put on the stream, in order: the status line,
\* headers, the end of the headers, bodies
Status(code, message) == [kind |-> "status", code |-> code, message |-> message]
Header(name, value) == [kind |-> "header", name |-> name, value |-> value]
EndHeaders == [kind |-> "end_headers"]
Body(json) == [kind |-> "body", json |-> json]

ContentTypeJson == Header("Content-Type", "application/json")
AllowOrigin == Header("Access-Control-Allow-Origin", "*")

\* BaseHTTPRequestHandler.version_string(): server_version and sys_version,
\* the latter being "Python/" and the version of the interpreter that runs
\* the server (the variable sys_version)
version_string == "BaseHTTP/0.6" \o " " \o sys_version

\* BaseHTTPRequestHandler.date_time_string() when time.time() is t seconds,
\* t below 60
date_time_string(t) ==
    "Thu, 01 Jan 1970 00:00:" \o (IF t < 10 THEN "0" ELSE "") \o ToString(t)
    \o " GMT"

\* BaseHTTPRequestHandler.send_response(code, message) called when
\* time.time() is date: the status line, the Server and the Date header
send_response(code, message, date) ==
    << Status(code, message), Header("Server", version_string),
       Header("Date", date_time_string(date)) >>

\* BaseHTTPRequestHandler.responses: the long message of a status code
explain(code) ==
    CASE code = 400 -> "Bad request syntax or unsupported method"
      [] code = 404 -> "Nothing matches the given URI"
      [] code = 501 -> "Server does not support this operation"

\* the length of the HTML error page (DEFAULT_ERROR_MESSAGE filled in; the
\* messages contain no character that html.escape rewrites)
error_page_length(code, message) ==
    286 + 2 * Len(ToString(code)) + Len(message) + Len(explain(code))

\* BaseHTTPRequestHandler.send_error(code, message): send_response, the
\* error page's headers and the HTML error page carrying the message;
\* send_error(404) has the short message "Not Found" for its message
send_error(code, message, date) ==
    send_response(code, message, date) \o
    << Header("Connection", "close"),
       Header("Content-Type", "text/html;charset=utf-8"),
       Header("Content-Length", ToString(error_page_length(code, message))),
       EndHeaders,
       [kind |-> "error_page", code |-> code, message |-> message,
        explain |-> explain(code)] >>

\* what of the calls reaches the socket: for a request line without a
\* version (HTTP/0.9) send_response, send_header and end_headers write
\* nothing, and only the bodies are sent
IsWritten(e) == e.kind \in {"body", "error_page"}

wire(request_version, calls) ==
    IF request_version = "HTTP/0.9" THEN SelectSeq(calls, IsWritten) ELSE calls

(* ------------------------------- do_GET ------------------------------- *)

health_response(date, now) ==
    send_response(200, "OK", date) \o
    << ContentTypeJson, AllowOrigin, EndHeaders,
       Body([status |-> "operational", timestamp |-> now,
             services |-> [database |-> "connected", redis |-> "connected"]]) >>

\* (mutant) the listing names the first module of the list, not the matched one
module_list_response_first(module, date) ==
    send_response(200, "OK", date) \o
    << ContentTypeJson, AllowOrigin, EndHeaders,
       Body([success |-> TRUE, data |-> <<>>, total |-> 0, module |-> modules[1]]) >>

module_list_response(module, date) ==
    send_response(200, "OK", date) \o
    << ContentTypeJson, AllowOrigin, EndHeaders,
       Body([success |-> TRUE, data |-> <<>>, total |-> 0, module |-> module]) >>

\* (mutant) the CORS header forgotten on the module health answer
module_health_response_nocors(module, date) ==
    send_response(200, "OK", date) \o
    << ContentTypeJson, EndHeaders,
       Body([module |-> module, status |-> "operational", version |-> "1.0.0"]) >>

module_health_response(module, date) ==
    send_response(200, "OK", date) \o
    << ContentTypeJson, AllowOrigin, EndHeaders,
       Body([module |-> module, status |-> "operational", version |-> "1.0.0"]) >>

\* (mutant) the listing test also accepts the module's /health path
RECURSIVE module_loop_greedy(_, _, _)
module_loop_greedy(path, i, date) ==
    IF i > Len(modules) THEN send_error(404, "Not Found", date)
    ELSE LET module == modules[i] IN
      IF path = "/api/v1/" \o module \/ path = "/api/v1/" \o module \o "/"
         \/ path = "/api/v1/" \o module \o "/health"
      THEN module_list_response(module, date)
      ELSE module_loop_greedy(path, i + 1, date)

\* (mutant) the loop stops one module short
RECURSIVE module_loop_short(_, _, _)
module_loop_short(path, i, date) ==
    IF i >= Len(modules) THEN send_error(404, "Not Found", date)
    ELSE LET module == modules[i] IN
      IF path = "/api/v1/" \o module \/ path = "/api/v1/" \o module \o "/"
      THEN module_list_response(module, date)
      ELSE IF path = "/api/v1/" \o module \o "/health"
      THEN module_health_response(module, date)
      ELSE module_loop_short(path, i + 1, date)

\* the loop over modules, from index i on; 404 when it runs out
RECURSIVE module_loop(_, _, _)
module_loop(path, i, date) ==
    IF i > Len(modules) THEN send_error(404, "Not Found", date)
    ELSE LET module == modules[i] IN
      IF path = "/api/v1/" \o module \/ path = "/api/v1/" \o module \o "/"
      THEN module_list_response(module, date)
      ELSE IF path = "/api/v1/" \o module \o "/health"
      THEN module_health_response(module, date)
      ELSE module_loop(path, i + 1, date)

\* what do_GET sends for self.path = target when time.time() is date in
\* send_response and datetime.now() is now
do_GET(target, date, now) ==
    WithValue(urlparse_path(target), LAMBDA path :
      IF path = "/health" \/ path = "/api/v1/health"
      THEN health_response(date, now)
      ELSE module_loop(path, 1, date))

(* ----------------------------- do_OPTIONS ----------------------------- *)

do_OPTIONS(date) ==
    send_response(200, "OK", date) \o
    << AllowOrigin,
       Header("Access-Control-Allow-Methods", "GET, POST, OPTIONS"),
       Header("Access-Control-Allow-Headers", "Content-Type"), EndHeaders >>

(* ------------------------------- do_POST ------------------------------ *)

LoginPath == "/api/v1/auth/login"

login_success ==
    [success |-> TRUE, token |-> "mock-jwt-token",
     user |-> [id |-> "1", email |-> "admin@blackcross.com", role |-> "admin"]]

login_failure == [success |-> FALSE, error |-> "Invalid credentials"]

\* (mutant) the comparison of line 91 with "or" for "and"
credentials_ok_or(email, password) ==
    str_eq(email, "admin@blackcross.com") \/ str_eq(password, "admin")

\* the comparison of line 91
credentials_ok(email, password) ==
    str_eq(email, "admin@blackcross.com") /\ str_eq(password, "admin")

\* lines 83-107, data being the dict that json.loads returned
login_response(data, date) ==
    LET email == dict_get(data, "email", [ty |-> "str", s |-> ""])
        password == dict_get(data, "password", [ty |-> "str", s |-> ""])
    IN send_response(200, "OK", date) \o
    << ContentTypeJson, AllowOrigin, EndHeaders,
          Body(IF credentials_ok(email, password) THEN login_success
               ELSE login_failure) >>

\* the exception the try block of lines 81-107 raises for post_data, if any,
\* and its str(e): UnicodeDecodeError from decode(), JSONDecodeError,
\* ValueError or RecursionError from json.loads, AttributeError from data.get
try_exception(post_data) ==
    IF ~decode_ok(post_data)
    THEN [raised |-> TRUE, text |-> decode_error(post_data)]
    ELSE WithValue(json_loads(post_data), LAMBDA r :
      IF ~r.ok THEN [raised |-> TRUE, text |-> r.text]
      ELSE IF r.val.ty # "dict"
      THEN [raised |-> TRUE, text |-> attribute_error(r.val)]
      ELSE [raised |-> FALSE, text |-> ""])

\* (mutant) send_response(200) and the headers moved above json.loads
login_try_early200(post_data, date) ==
    send_response(200, "OK", date) \o
    << ContentTypeJson, AllowOrigin, EndHeaders >> \o
    WithValue(try_exception(post_data), LAMBDA e :
      IF e.raised THEN send_error(400, "Bad Request: " \o e.text, date)
      ELSE << login_response(json_loads(post_data).val, date)[7] >>)

\* (mutant) a JSON value that is no object is treated as an empty object
login_try_lenient(post_data, date) ==
    IF ~decode_ok(post_data) \/ ~json_loads(post_data).ok
    THEN send_error(400, "Bad Request: " \o try_exception(post_data).text, date)
    ELSE IF json_loads(post_data).val.ty # "dict"
    THEN login_response([ty |-> "dict", items |-> << >>], date)
    ELSE login_response(json_loads(post_data).val, date)

\* lines 81-109: decode, json.loads and data.get raise before anything is
\* written, and the except clause answers 400 with the exception's text
login_try(post_data, date) ==
    WithValue(try_exception(post_data), LAMBDA e :
      IF e.raised THEN send_error(400, "Bad Request: " \o e.text, date)
      ELSE login_response(json_loads(post_data).val, date))

(* ------------------------------ requests ------------------------------ *)

\* the Content-Length header: absent, not a number, an integer, or an
\* integer so large that rfile.read raises at once (OverflowError from
\* 2^63 - 1 on, MemoryError for what the machine cannot allocate)
NoCL == [kind |-> "absent", n |-> 0]
TextCL == [kind |-> "text", n |-> 0]
IntCL(k) == [kind |-> "int", n |-> k]
HugeCL == [kind |-> "huge", n |-> 0]
\* the headers attribute of a handler that has not read the headers
UnsetHeaders == [kind |-> "unset", n |-> 0]

\* a request as a client means to send it: the words of the request line
\* (version "HTTP/0.9" for a line of two words), the header, the body
Req(method, target, version, cl, body) ==
    [method |-> method, target |-> target, version |-> version, cl |-> cl,
     body |-> body]

ApiV1 == << "/", "api", "/", "v1" >>
LoginTarget == ApiV1 \o << "/", "auth", "/", "login" >>

ModuleTargets(m) ==
    { ApiV1 \o << "/", m >>, ApiV1 \o << "/", m, "/" >>,
      ApiV1 \o << "/", m, "/", "health" >>,
      ApiV1 \o << "/", m, "/", "health", "/" >> }

OtherTargets ==
    { << "/", "health" >>, ApiV1 \o << "/", "health" >>,
      << "/" >>, << "/", "health", "/" >>, ApiV1, ApiV1 \o << "/" >>,
      ApiV1 \o << "/", "unknown-module" >>,
      ApiV1 \o << "/", "unknown-module", "/", "health" >>,
      ApiV1 \o << "/", "threat" >>, ApiV1 \o << "/", "siem-x" >>,
      ApiV1 \o << "/", "SIEM" >>, ApiV1 \o << "/", "siem", "/", "extra" >>,
      << "/", "api", ";", "a", "/", "v1", "/", "siem" >>,
      ApiV1 \o << "/", "siem", ";", "x", "/", "health" >>,
      << "/", "siem" >>, LoginTarget }

Suffixes ==
    { << >>, << "?", "q=1" >>, << "#", "frag" >>, << ";", "p=1" >>,
      << "?", "q=1", "#", "frag" >>, << ";", "p=1", "?", "q=1" >>,
      << "#", "frag", "?", "q=1" >> }

\* every module's targets as they are, and some targets with every suffix
PlainTargets == UNION { ModuleTargets(m) : m \in ModuleSet }
VariedTargets == OtherTargets \cup ModuleTargets("siem") \cup ModuleTargets("compliance")

GetTargets == PlainTargets \cup { b \o x : b \in VariedTargets, x \in Suffixes }

\* targets also asked for with an HTTP/1.0 and with an HTTP/0.9 request line
OldTargets ==
    { << "/", "health" >>, ApiV1 \o << "/", "siem" >>,
      ApiV1 \o << "/", "dark-web", "/", "health" >>,
      ApiV1 \o << "/", "unknown-module" >> }

PostTargets ==
    { LoginTarget, LoginTarget \o << "?", "q=1" >>, LoginTarget \o << "/" >>,
      << "/", "health" >>, ApiV1 \o << "/", "siem" >> }

OptionsTargets ==
    { << "*" >>, << "/", "health" >>, LoginTarget, ApiV1 \o << "/", "siem" >>,
      << "/", "nope" >> }

AdminEmail == S("admin@blackcross.com")
AdminPassword == S("admin")

\* a text of n digits
RECURSIVE Ones(_)
Ones(n) ==
    IF n = 0 THEN ""
    ELSE IF n % 2 = 1 THEN "1" \o Ones(n - 1)
    ELSE LET half == Ones(n \div 2) IN half \o half

Obj1(k, v) == << P("{"), S(k), P(":"), v, P("}") >>
Obj2(k1, v1, k2, v2) ==
    << P("{"), S(k1), P(":"), v1, P(","), S(k2), P(":"), v2, P("}") >>
Obj3(k1, v1, k2, v2, k3, v3) ==
    << P("{"), S(k1), P(":"), v1, P(","), S(k2), P(":"), v2, P(","),
       S(k3), P(":"), v3, P("}") >>

GoodBody == Obj2("email", AdminEmail, "password", AdminPassword)

\* bodies that are one JSON object
ObjectBodies ==
    { GoodBody,
      Obj2("password", AdminPassword, "email", AdminEmail),
      Obj2("email", S("x"), "password", S("y")),
      Obj2("email", AdminEmail, "password", S("y")),
      Obj2("email", S("x"), "password", AdminPassword),
      Obj2("email", AdminPassword, "password", AdminEmail),
      Obj2("email", S("Admin@BlackCross.com"), "password", AdminPassword),
      Obj2("Email", AdminEmail, "password", AdminPassword),
      Obj1("email", AdminEmail), Obj1("password", AdminPassword),
      << P("{"), P("}") >>,
      Obj2("email", N("1"), "password", AdminPassword),
      Obj2("email", AdminEmail, "password", L("null")),
      Obj2("email", L("true"), "password", L("true")),
      Obj2("email", AdminEmail, "password", F("1.5")),
      << P("{"), S("email"), P(":"), P("["), AdminEmail, P("]"), P(","),
         S("password"), P(":"), AdminPassword, P("}") >>,
      Obj3("email", S("x"), "email", AdminEmail, "password", AdminPassword),
      Obj3("email", AdminEmail, "email", S("x"), "password", AdminPassword),
      << P("{"), S("email"), P(":"), AdminEmail, P(","), S("password"), P(":"),
         AdminPassword, P(","), S("extra"), P(":"), P("{"), S("a"), P(":"),
         P("["), N("1"), P("]"), P("}"), P("}") >>,
      Obj3("email", AdminEmail, "password", AdminPassword,
           "x", N(Ones(int_max_str_digits))),
      Obj3("email", AdminEmail, "password", AdminPassword,
           "x", N(Ones(int_max_str_digits + 1))),
      Obj1("email", N(Ones(int_max_str_digits + 1))) }

\* bodies that are something else
OtherBodies ==
    { << >>, << P("["), P("]") >>,
      << P("["), AdminEmail, P(","), AdminPassword, P("]") >>,
      << P("["), P("["), P("]"), P("]") >>,
      << AdminEmail >>, << N("1") >>, << F("1.5") >>, << L("null") >>,
      << L("true") >>, << L("NaN") >>, << Junk >>, << BadByte >>,
      << N(Ones(int_max_str_digits + 1)) >>,
      << N("1"), Junk >>,
      << P("{"), P("}"), P("{"), P("}") >>,
      << P("{"), S("email"), P(":"), AdminEmail, P(","), P("}") >>,
      << P("{"), S("email"), AdminEmail, P("}") >>,
      << P("{"), S("email"), P(":"), AdminEmail, S("password"), P("}") >>,
      << P("{"), N("1"), P(":"), AdminEmail, P("}") >>,
      << P("["), N("1"), P(","), P("]") >>,
      << P("["), N("1"), S("x"), P("]") >>,
      << P("["), N("12"), P("]") >>,
      << P("["), N("1"), P("{"), P("}"), P("]") >>,
      Obj3("email", AdminEmail, "password", AdminPassword, "x", L("NaN")),
      Obj1("email", L("-Infinity")),
      GoodBody \o << BadByte >> }

Bodies == ObjectBodies \cup OtherBodies

\* Content-Length values with which line 79 reads: -1 and 0 up to a little
\* more than the body has
ReadLengths(body) ==
    { IntCL(-1) } \cup { IntCL(k) : k \in 0..(Len(body) + MaxOver) }

\* Content-Length values with which line 78 or line 79 raises
RaisingLengths == { NoCL, TextCL, HugeCL, IntCL(-2) }

GetRequests ==
    { Req("GET", t, "HTTP/1.1", NoCL, << >>) : t \in GetTargets }
    \cup { Req("GET", t, v, NoCL, << >>) : t \in OldTargets, v \in {"HTTP/1.0", "HTTP/0.9"} }

OptionsRequests ==
    { Req("OPTIONS", t, "HTTP/1.1", NoCL, << >>) : t \in OptionsTargets }
    \cup { Req("OPTIONS", << "/", "health" >>, v, NoCL, << >>) : v \in {"HTTP/1.0", "HTTP/0.9"} }

LoginRequests ==
    UNION { { Req("POST", LoginTarget, "HTTP/1.1", cl, b) : cl \in ReadLengths(b) } :
            b \in Bodies }
    \cup { Req("POST", LoginTarget, "HTTP/1.1", cl, b) :
             cl \in RaisingLengths, b \in { GoodBody, << P("{"), P("}") >> } }
    \cup { Req("POST", LoginTarget, v, IntCL(Len(GoodBody)), GoodBody) :
             v \in {"HTTP/1.0", "HTTP/0.9"} }

OtherPostRequests ==
    { Req("POST", t, "HTTP/1.1", IntCL(2), << P("{"), P("}") >>) :
        t \in PostTargets \ { LoginTarget } }

\* requests with a method the handler class has no do_ method for
PutRequests ==
    { Req("PUT", << "/", "health" >>, v, NoCL, << >>) : v \in {"HTTP/1.1", "HTTP/0.9"} }

Requests ==
    GetRequests \cup OptionsRequests \cup LoginRequests \cup OtherPostRequests
    \cup PutRequests

(* ------------------------------- state -------------------------------- *)

NoReq == Req("", << >>, "", NoCL, << >>)
NoLine == [method |-> "", target |-> << >>, version |-> ""]

\* a handler object: the request line it read, the attributes parse_request
\* sets (command and path stay unset when it rejects the line, headers until
\* the header block has been read),
\* the locals of do_POST, what it sent, and how it ended: "none" (running),
\* "responded" (a do_ method returned), "rejected" (the base class answered),
\* "no_request" (the client closed without a request line), "crashed" (an
\* exception reached socketserver, which closes the connection)
NoHandler ==
    [requestline |-> NoLine, command |-> "", path |-> << >>,
     request_version |-> "", headers |-> UnsetHeaders, content_length |-> NoCL,
     post_data |-> << >>, wfile |-> << >>, outcome |-> "none"]

\* the client's side of the connection: the request it means to send, how
\* much of the head it has sent (0 nothing, 1 the request line, 2 the
\* headers and the blank line too), how many body tokens it has sent and
\* whether it has closed its sending side
NoConn == [req |-> NoReq, head |-> 0, sent |-> 0, closed |-> FALSE]

\* what a handler received: request line, headers and the body it read
ReqKey(hh) ==
    [requestline |-> hh.requestline, headers |-> hh.headers,
     post_data |-> hh.post_data]

Line(method, target, version) ==
    [method |-> method, target |-> target, version |-> version]
Key(method, target, version, cl, post_data) ==
    [requestline |-> Line(method, target, version), headers |-> cl,
     post_data |-> post_data]

\* the received requests whose first answer is remembered in the variable first
Probes ==
    { Key("GET", << "/", "health" >>, "HTTP/1.1", NoCL, << >>),
      Key("GET", ApiV1 \o << "/", "siem" >>, "HTTP/0.9", NoCL, << >>),
      Key("GET", ApiV1 \o << "/", "unknown-module" >>, "HTTP/1.1", NoCL, << >>),
      Key("OPTIONS", << "/", "health" >>, "HTTP/1.1", NoCL, << >>),
      Key("POST", LoginTarget, "HTTP/1.1", IntCL(9), GoodBody),
      Key("POST", LoginTarget, "HTTP/1.1", IntCL(9),
          Obj2("email", S("x"), "password", S("y"))),
      Key("POST", LoginTarget, "HTTP/1.1", IntCL(2), << P("["), P("]") >>),
      Key("POST", LoginTarget, "HTTP/1.1", NoCL, << >>) }

\* the first probe answered, its answer and how its handler ended
NoFirst == [set |-> FALSE, key |-> Key("", << >>, "", NoCL, << >>),
            wfile |-> << >>, outcome |-> "none"]

\* BaseHTTPRequestHandler.sys_version of the interpreters the server is run
\* on; it is fixed for the life of the process
SysVersions == { "Python/3.11.6", "Python/3.11.7" }

\* run_server has built the server and called serve_forever, which is at
\* its first statement
Init ==
    /\ runpc = "start"
    /\ is_shut_down = FALSE
    /\ shutdown_request = FALSE
    /\ pc = "idle"
    /\ h = NoHandler
    /\ conn = NoConn
    /\ first = NoFirst
    /\ sys_version \in SysVersions

(* ------------------------------ actions ------------------------------- *)

serverVars == <<sys_version, runpc, is_shut_down, shutdown_request>>

\* the handler hh ends having sent w, and the answer to the first probe is
\* remembered
Finish(hh, w, outcome) ==
    /\ h' = [hh EXCEPT !.wfile = hh.wfile \o w, !.outcome = outcome]
    /\ pc' = "done"
    /\ conn' = conn
    /\ first' = IF ~first.set /\ ReqKey(hh) \in Probes
                THEN [set |-> TRUE, key |-> ReqKey(hh), wfile |-> hh.wfile \o w,
                      outcome |-> outcome]
                ELSE first
    /\ UNCHANGED serverVars

\* serve_forever clears the is_shut_down event and enters its try block
ServeForever ==
    /\ runpc = "start"
    /\ runpc' = "serving"
    /\ is_shut_down' = FALSE
    /\ UNCHANGED <<sys_version, shutdown_request, pc, h, conn, first>>

\* (mutant) the handler of the next connection keeps the stream of the one
\* before it
Accept_reuse ==
    /\ runpc = "serving" /\ ~shutdown_request
    /\ pc = "idle"
    /\ conn' = NoConn
    /\ h' = [NoHandler EXCEPT !.wfile = h.wfile]
    /\ pc' = "request"
    /\ UNCHANGED <<serverVars, first>>

\* the serve loop accepts a connection and finish_request builds a new
\* handler object for it (its attributes unset, its rfile and wfile made by
\* setup for this connection), which starts reading the request line; the
\* client has sent nothing yet
Accept ==
    /\ runpc = "serving" /\ ~shutdown_request
    /\ pc = "idle"
    /\ conn' = NoConn
    /\ h' = NoHandler
    /\ pc' = "request"
    /\ UNCHANGED <<serverVars, first>>

\* handle_one_request up to the header block: rfile.readline returns once
\* the request line has arrived or the client has closed.  No request line:
\* the handler returns.  parse_request then sets requestline and
\* request_version (HTTP/0.9 for a line of two words); a line of two words
\* must be a GET, else it answers 400 at once, command, path and headers
\* unset; otherwise it sets command and path and goes on to the headers.
ReadRequestLine ==
    /\ pc = "request"
    /\ conn.head >= 1 \/ conn.closed
    /\ IF conn.head = 0 THEN Finish(h, << >>, "no_request")
       ELSE LET req == conn.req
                line == Line(req.method, req.target, req.version)
                read == [h EXCEPT !.requestline = line,
                                  !.request_version = req.version]
            IN IF req.version = "HTTP/0.9" /\ req.method # "GET"
               THEN \E date \in 0..MaxTime :
                      Finish(read,
                             wire(req.version,
                                  send_error(400, "Bad HTTP/0.9 request type ('"
                                                  \o req.method \o "')", date)),
                             "rejected")
               ELSE /\ h' = [read EXCEPT !.command = req.method,
                                         !.path = req.target]
                    /\ pc' = "headers"
                    /\ UNCHANGED <<serverVars, conn, first>>

\* the rest of parse_request and of handle_one_request: parse_headers
\* returns once the blank line after the headers has arrived or the client
\* has closed (having sent no header then); a method without a do_ method is
\* answered 501, otherwise the do_ method is called.
ReadHeaders ==
    /\ pc = "headers"
    /\ conn.head = 2 \/ conn.closed
    /\ LET parsed == [h EXCEPT !.headers =
                         IF conn.head = 2 THEN conn.req.cl ELSE NoCL]
       IN IF parsed.command \notin {"GET", "POST", "OPTIONS"}
          THEN \E date \in 0..MaxTime :
                 Finish(parsed,
                        wire(parsed.request_version,
                             send_error(501, "Unsupported method ('"
                                             \o parsed.command \o "')", date)),
                        "rejected")
          ELSE /\ h' = parsed
               /\ pc' = "handle"
               /\ UNCHANGED <<serverVars, conn, first>>

HandleGET ==
    /\ pc = "handle" /\ h.command = "GET"
    /\ \E date \in 0..MaxTime, now \in 0..MaxTime :
       \E w \in { wire(h.request_version, do_GET(h.path, date, now)) } :
         Finish(h, w, "responded")

HandleOPTIONS ==
    /\ pc = "handle" /\ h.command = "OPTIONS"
    /\ \E date \in 0..MaxTime :
         Finish(h, wire(h.request_version, do_OPTIONS(date)), "responded")

\* lines 77-78 and 110-111: the route test on self.path and
\* int(self.headers['Content-Length']), which raises TypeError for a missing
\* header and ValueError for one that is no number; neither is caught
HandlePOST_begin ==
    /\ pc = "handle" /\ h.command = "POST"
    /\ IF Join(h.path) # LoginPath
       THEN \E date \in 0..MaxTime :
              Finish(h, wire(h.request_version, send_error(404, "Not Found", date)),
                     "responded")
       ELSE IF h.headers.kind \in {"absent", "text"}
       THEN Finish(h, << >>, "crashed")
       ELSE /\ h' = [h EXCEPT !.content_length = h.headers]
            /\ pc' = "read"
            /\ UNCHANGED <<serverVars, conn, first>>

\* line 79: rfile.read(n) raises at once, uncaught, for n below -1
\* (ValueError) and for n too large (OverflowError, MemoryError); otherwise it
\* returns once n tokens have arrived or the client has closed, n = -1
\* reading to the end of the stream
HandlePOST_read ==
    /\ pc = "read"
    /\ IF h.content_length.kind = "huge" \/ h.content_length.n < -1
       THEN Finish(h, << >>, "crashed")
       ELSE /\ \/ conn.closed
               \/ h.content_length.n >= 0 /\ conn.sent >= h.content_length.n
            /\ h' = [h EXCEPT !.post_data =
                       IF h.content_length.n < 0 THEN SubSeq(conn.req.body, 1, conn.sent)
                       ELSE SubSeq(conn.req.body, 1, Min(h.content_length.n, conn.sent))]
            /\ pc' = "try"
            /\ UNCHANGED <<serverVars, conn, first>>

\* lines 81-109
HandlePOST_try ==
    /\ pc = "try"
    /\ \E date \in 0..MaxTime :
       \E w \in { wire(h.request_version, login_try(h.post_data, date)) } :
         Finish(h, w, "responded")

\* socketserver's shutdown_request after the handler has returned or raised:
\* the connection is closed and the serve loop goes back to select; the
\* handler object is referenced no more, and what it held stays where it
\* was until the next handler is built
CloseRequest ==
    /\ pc = "done"
    /\ pc' = "idle"
    /\ conn' = NoConn
    /\ UNCHANGED <<serverVars, h, first>>

\* the client sends the request line of the request it has in mind, then
\* the headers and the blank line
ClientSendHead ==
    /\ pc \in {"request", "headers"} /\ ~conn.closed /\ conn.head < 2
    /\ IF conn.head = 0
       THEN \E req \in Requests : conn' = [conn EXCEPT !.req = req, !.head = 1]
       ELSE conn' = [conn EXCEPT !.head = 2]
    /\ UNCHANGED <<serverVars, pc, h, first>>

\* the client sends the rest of its body
ClientSend ==
    /\ pc \in {"request", "headers", "handle", "read", "try"}
    /\ ~conn.closed /\ conn.head = 2 /\ conn.sent < Len(conn.req.body)
    /\ conn' = [conn EXCEPT !.sent = Len(conn.req.body)]
    /\ UNCHANGED <<serverVars, pc, h, first>>

\* the client closes its sending side, before it has finished the head or
\* after it has sent its body
ClientClose ==
    /\ pc \in {"request", "headers", "handle", "read", "try"}
    /\ ~conn.closed
    /\ conn.head < 2 \/ conn.sent = Len(conn.req.body)
    /\ conn' = [conn EXCEPT !.closed = TRUE]
    /\ UNCHANGED <<serverVars, pc, h, first>>

\* KeyboardInterrupt is raised inside serve_forever.  Inside its try block a
\* running handler is unwound (no except clause of the handler catches it),
\* socketserver closes the connection and re-raises, and the finally clause
\* is to run; before the try block (at the statement that clears
\* is_shut_down) the exception goes straight to run_server's except clause.
Interrupt ==
    /\ runpc \in {"start", "serving"}
    /\ runpc' = IF runpc = "start" THEN "except" ELSE "unwinding"
    /\ pc' = "idle"
    /\ h' = NoHandler
    /\ conn' = NoConn
    /\ UNCHANGED <<sys_version, is_shut_down, shutdown_request, first>>

\* the finally clause of serve_forever, run as the exception leaves it
ServeFinally ==
    /\ runpc = "unwinding"
    /\ shutdown_request' = FALSE
    /\ is_shut_down' = TRUE
    /\ runpc' = "except"
    /\ UNCHANGED <<sys_version, pc, h, conn, first>>

\* lines 130-132: the except clause prints and calls server.shutdown(),
\* which sets the shutdown request and then waits for is_shut_down
Shutdown ==
    /\ runpc = "except"
    /\ shutdown_request' = TRUE
    /\ runpc' = "shutdown_wait"
    /\ UNCHANGED <<sys_version, is_shut_down, pc, h, conn, first>>

\* is_shut_down.wait() returns once the event is set, and run_server returns
ShutdownWait ==
    /\ runpc = "shutdown_wait"
    /\ is_shut_down
    /\ runpc' = "returned"
    /\ UNCHANGED <<sys_version, is_shut_down, shutdown_request, pc, h, conn, first>>

ServerStep ==
    \/ ServeForever \/ ReadRequestLine \/ ReadHeaders \/ HandleGET \/ HandleOPTIONS
    \/ HandlePOST_begin \/ HandlePOST_read \/ HandlePOST_try \/ CloseRequest
    \/ ServeFinally \/ Shutdown
    \/ ShutdownWait

Next ==
    \/ ServeForever
    \/ Accept
    \/ ReadRequestLine
    \/ ReadHeaders
    \/ HandleGET
    \/ HandleOPTIONS
    \/ HandlePOST_begin
    \/ HandlePOST_read
    \/ HandlePOST_try
    \/ CloseRequest
    \/ ClientSendHead
    \/ ClientSend
    \/ ClientClose
    \/ Interrupt
    \/ ServeFinally
    \/ Shutdown
    \/ ShutdownWait

Spec == Init /\ [][Next]_vars

\* the server's own steps are taken when they can be: the interpreter keeps
\* running the one thread; nothing is assumed of clients or of the interrupt
FairSpec == Init /\ [][Next]_vars /\ WF_vars(ServerStep)


(* ===================== observations used by the claims ================= *)

\* the status codes sent, in order
RECURSIVE Codes(_)
Codes(w) ==
    IF w = << >> THEN << >>
    ELSE IF Head(w).kind = "status" THEN << Head(w).code >> \o Codes(Tail(w))
    ELSE Codes(Tail(w))

HasHeader(w, name, value) ==
    \E i \in 1..Len(w) :
        w[i].kind = "header" /\ w[i].name = name /\ w[i].value = value

HasHeaderNamed(w, name) ==
    \E i \in 1..Len(w) : w[i].kind = "header" /\ w[i].name = name

\* the JSON payloads sent, in order
RECURSIVE Payloads(_)
Payloads(w) ==
    IF w = << >> THEN << >>
    ELSE IF Head(w).kind = "body" THEN << Head(w).json >> \o Payloads(Tail(w))
    ELSE Payloads(Tail(w))

HasToken(w) ==
    \E i \in 1..Len(w) : w[i].kind = "body" /\ "token" \in DOMAIN w[i].json

HasErrorPage(w) ==
    \E i \in 1..Len(w) : w[i].kind = "error_page" /\ w[i].message # ""

\* a do_ method has returned and its answer is complete
Answered == pc = "done" /\ h.outcome = "responded"

\* the request line names a version, HTTP/1.0 or HTTP/1.1 (the wire protocol
\* the specification is about), so that the answer has a status line
Versioned == h.request_version \in {"HTTP/1.0", "HTTP/1.1"}

LoginAnswered ==
    Answered /\ h.command = "POST" /\ Join(h.path) = LoginPath

GetAnswered == Answered /\ h.command = "GET" /\ Versioned

\* the grammar of JSON itself: no limit on digits or nesting, no NaN
JsonGrammar == [max_digits |-> 0, room |-> 1000000, nan |-> FALSE]

\* the body is well-formed JSON / a JSON object
IsJson(data) == decode_ok(data) /\ json_decode(data, JsonGrammar).ok
IsJsonObject(data) == IsJson(data) /\ json_decode(data, JsonGrammar).val.ty = "dict"

\* json.loads accepts the body / returns a dict for it
Decoded(data) == decode_ok(data) /\ json_loads(data).ok
IsDict(data) == Decoded(data) /\ json_loads(data).val.ty = "dict"

\* the object's field key is the string text (a repeated key counts by its
\* last occurrence, as for any JSON object read into a dict)
FieldIs(obj, key, text) ==
    \E i \in 1..Len(obj.items) :
        /\ obj.items[i].k = key
        /\ obj.items[i].v.ty = "str" /\ obj.items[i].v.s = text
        /\ \A j \in (i + 1)..Len(obj.items) : obj.items[j].k # key

IsSuccessPayload(j) ==
    /\ DOMAIN j = {"success", "token", "user"}
    /\ j.success = TRUE /\ j.token = "mock-jwt-token"
    /\ j.user = [id |-> "1", email |-> "admin@blackcross.com", role |-> "admin"]

IsFailurePayload(j) ==
    /\ DOMAIN j = {"success", "error"}
    /\ j.success = FALSE /\ j.error = "Invalid credentials"

\* the answer is 200 with the success payload exactly when obj has the two
\* credentials, and else the invalid-credentials payload without a token
LoginOutcome(obj, w) ==
    LET good == FieldIs(obj, "email", "admin@blackcross.com")
                /\ FieldIs(obj, "password", "admin")
        js == Payloads(w)
    IN /\ Codes(w) = << 200 >>
       /\ Len(js) = 1
       /\ good => IsSuccessPayload(js[1])
       /\ ~good => IsFailurePayload(js[1]) /\ ~HasToken(w)

(* ============================== claims ================================= *)

\* C1 (as claimed): a login POST whose body (as read at line 79) is a JSON
\* object is answered 200, with the success payload exactly when the email
\* field is "admin@blackcross.com" and the password field is "admin", and
\* otherwise with success false, error "Invalid credentials" and no token.
C1_LoginIffCredentials ==
    (LoginAnswered /\ IsJsonObject(h.post_data)) =>
        LoginOutcome(json_decode(h.post_data, JsonGrammar).val, h.wfile)

\* C1 (amended): a login POST whose body json.loads decodes to an object is
\* answered 200, with the success payload exactly when the email field is
\* "admin@blackcross.com" and the password field is "admin", and otherwise
\* with the invalid-credentials payload and no token; a JSON object that
\* json.loads rejects for its size (an integer literal of more than 4300
\* digits, nesting beyond the recursion limit) is answered 400, no token.
C1_Amended ==
    /\ (LoginAnswered /\ IsDict(h.post_data)) =>
           LoginOutcome(json_loads(h.post_data).val, h.wfile)
    /\ (LoginAnswered /\ IsJsonObject(h.post_data) /\ ~Decoded(h.post_data)) =>
           Codes(h.wfile) = << 400 >> /\ ~HasToken(h.wfile)

C1_Witness ==
    /\ LoginAnswered
    /\ h.post_data = Obj2("password", AdminPassword, "email", AdminEmail)
    /\ HasToken(h.wfile)

\* C2 (as claimed): a login POST whose body is not well-formed JSON is
\* answered 400 with an error message, and no 200 status line and no token
\* is sent for that request, neither before nor after the 400.
C2_MalformedIs400 ==
    (h.command = "POST" /\ Join(h.path) = LoginPath
     /\ pc \in {"try", "done"} /\ h.outcome # "crashed"
     /\ ~IsJson(h.post_data)) =>
        /\ \A i \in 1..Len(Codes(h.wfile)) : Codes(h.wfile)[i] # 200
        /\ ~HasToken(h.wfile)
        /\ pc = "done" => Codes(h.wfile) = << 400 >> /\ HasErrorPage(h.wfile)

\* C2 (amended): a login POST whose body json.loads rejects is answered 400
\* with an error message, and no 200 status line and no token is sent for
\* that request; json.loads accepts, beside JSON, the literals NaN, Infinity
\* and -Infinity, so that a body which is a JSON object but for such a
\* literal is answered 200 with the invalid-credentials or success payload.
C2_Amended ==
    /\ (h.command = "POST" /\ Join(h.path) = LoginPath
        /\ pc \in {"try", "done"} /\ h.outcome # "crashed"
        /\ ~Decoded(h.post_data)) =>
           /\ \A i \in 1..Len(Codes(h.wfile)) : Codes(h.wfile)[i] # 200
           /\ ~HasToken(h.wfile)
           /\ pc = "done" => Codes(h.wfile) = << 400 >> /\ HasErrorPage(h.wfile)
    /\ (LoginAnswered /\ ~IsJson(h.post_data) /\ IsDict(h.post_data)) =>
           LoginOutcome(json_loads(h.post_data).val, h.wfile)

C2_Witness ==
    /\ LoginAnswered
    /\ h.post_data = << P("{"), S("email"), P(":"), AdminEmail, P(","), S("password") >>
    /\ Codes(h.wfile) = << 400 >>
    /\ HasErrorPage(h.wfile)

\* C3 (as claimed): whatever request the server is handling, a failing one
\* included, once the client has sent all it is going to send the server
\* eventually gets back to its select loop to serve the next request (or is
\* interrupted, which also ends the request).
C3_NextRequestServed ==
    (runpc = "serving" /\ pc # "idle"
     /\ conn.head = 2 /\ conn.sent = Len(conn.req.body)) ~> (pc = "idle")

\* the answer with the health timestamp blanked
RECURSIVE NoTimestamp(_)
NoTimestamp(w) ==
    IF w = << >> THEN << >>
    ELSE << IF Head(w).kind = "body" /\ "timestamp" \in DOMAIN Head(w).json
            THEN Body([Head(w).json EXCEPT !.timestamp = 0])
            ELSE Head(w) >> \o NoTimestamp(Tail(w))

\* the stream with the Date header's value blanked
RECURSIVE NoDate(_)
NoDate(w) ==
    IF w = << >> THEN << >>
    ELSE << IF Head(w).kind = "header" /\ Head(w).name = "Date"
            THEN Header("Date", "")
            ELSE Head(w) >> \o NoDate(Tail(w))

\* the handler is answering, or has answered, a request received before
SeenBefore == first.set /\ ReqKey(h) = first.key

C5_InterruptReturns ==
    (runpc \in {"unwinding", "except", "shutdown_wait"}) ~> (runpc = "returned")

\* C6 (as claimed): every answer with status 200 carries both
\* Content-Type: application/json and Access-Control-Allow-Origin: *.
C6_Every200HasBothHeaders ==
    (Answered /\ Codes(h.wfile) = << 200 >>) =>
        /\ HasHeader(h.wfile, "Content-Type", "application/json")
        /\ HasHeader(h.wfile, "Access-Control-Allow-Origin", "*")

\* C6 (amended): every answer with status 200 carries
\* Access-Control-Allow-Origin: *; the 200 answers of do_GET and do_POST also
\* carry Content-Type: application/json, and the 200 answer of do_OPTIONS,
\* which has no body, carries no Content-Type header.
C6_Amended ==
    (Answered /\ Codes(h.wfile) = << 200 >>) =>
        /\ HasHeader(h.wfile, "Access-Control-Allow-Origin", "*")
        /\ h.command \in {"GET", "POST"} =>
               HasHeader(h.wfile, "Content-Type", "application/json")
        /\ h.command = "OPTIONS" =>
               ~HasHeaderNamed(h.wfile, "Content-Type") /\ Payloads(h.wfile) = << >>

C6_Witness ==
    /\ Answered /\ h.command = "OPTIONS"
    /\ Codes(h.wfile) = << 200 >>
    /\ HasHeader(h.wfile, "Access-Control-Allow-Origin", "*")
    /\ ~HasHeaderNamed(h.wfile, "Content-Type")

\* the three route patterns of a module
ListPath(m) == "/api/v1/" \o m
ListSlashPath(m) == "/api/v1/" \o m \o "/"
HealthPath(m) == "/api/v1/" \o m \o "/health"
Patterns(m) == { ListPath(m), ListSlashPath(m), HealthPath(m) }

\* C7: GET /api/v1/{name} and GET /api/v1/{name}/ are answered 200 with
\* success true, data [], total 0 and module = name for each of the 15
\* names, and no pattern of one module is a pattern of another, so the order
\* of the scan does not matter.
PatternsDisjoint ==
    /\ Len(modules) = 15 /\ Cardinality(ModuleSet) = 15
    /\ \A m1, m2 \in ModuleSet : m1 # m2 => Patterns(m1) \cap Patterns(m2) = {}

C7_ModuleListing ==
    /\ PatternsDisjoint
    /\ GetAnswered =>
         \A m \in ModuleSet :
           Join(h.path) \in { ListPath(m), ListSlashPath(m) } =>
             /\ Codes(h.wfile) = << 200 >>
             /\ Payloads(h.wfile) =
                  << [success |-> TRUE, data |-> << >>, total |-> 0, module |-> m] >>

C7_Witness ==
    /\ GetAnswered /\ Join(h.path) = "/api/v1/threat-feeds/"
    /\ Payloads(h.wfile) =
         << [success |-> TRUE, data |-> << >>, total |-> 0, module |-> "threat-feeds"] >>

\* C8: GET /api/v1/{name}/health is answered 200 with module = name, status
\* "operational" and version "1.0.0" for each of the 15 names, and never with
\* the listing payload or the global health payload.
C8_ModuleHealth ==
    GetAnswered => \A m \in ModuleSet :
        Join(h.path) = HealthPath(m) =>
            /\ Codes(h.wfile) = << 200 >>
            /\ Len(Payloads(h.wfile)) = 1
            /\ LET j == Payloads(h.wfile)[1] IN
                 /\ DOMAIN j = {"module", "status", "version"}
                 /\ j.module = m /\ j.status = "operational" /\ j.version = "1.0.0"

C8_Witness ==
    /\ GetAnswered /\ Join(h.path) = "/api/v1/automation/health"
    /\ Payloads(h.wfile) =
         << [module |-> "automation", status |-> "operational", version |-> "1.0.0"] >>

\* the paths answered with 200
OkPaths == {"/health", "/api/v1/health"} \cup UNION { Patterns(m) : m \in ModuleSet }

\* the target's path component: what precedes the first "?" or "#"
PathComponent(target) ==
    LET q == Find(target, "?", 1)
        f == Find(target, "#", 1)
        cut == IF q = 0 THEN f ELSE IF f = 0 THEN q ELSE Min(q, f)
    IN IF cut = 0 THEN target ELSE SubSeq(target, 1, cut - 1)

\* a path without the ";parameters" of its last segment
RECURSIVE DropParams(_)
DropParams(p) ==
    IF p = << >> THEN p
    ELSE IF p[Len(p)] = "/" THEN p
    ELSE IF p[Len(p)] = ";" THEN DropParams(SubSeq(p, 1, Len(p) - 1))
    ELSE LET front == SubSeq(p, 1, Len(p) - 1)
             d == DropParams(front)
         IN IF d = front THEN p ELSE d

\* C9 (as claimed): a GET is answered 200 exactly when its path component
\* (query string and fragment removed) is one of the routed paths, and 404
\* without a JSON payload otherwise.
C9_GetRouting ==
    GetAnswered =>
        IF Join(PathComponent(h.path)) \in OkPaths
        THEN Codes(h.wfile) = << 200 >>
        ELSE Codes(h.wfile) = << 404 >> /\ Payloads(h.wfile) = << >>

\* C9 (amended): a GET is answered 200 exactly when its path component with
\* the ";parameters" of its last segment removed as well is one of the
\* routed paths, and 404 without a JSON payload otherwise.
C9_Amended ==
    GetAnswered =>
        IF Join(DropParams(PathComponent(h.path))) \in OkPaths
        THEN Codes(h.wfile) = << 200 >> /\ Len(Payloads(h.wfile)) = 1
        ELSE Codes(h.wfile) = << 404 >> /\ Payloads(h.wfile) = << >>

C9_Witness ==
    /\ GetAnswered
    /\ h.path = ApiV1 \o << "/", "compliance", ";", "p=1", "?", "q=1" >>
    /\ Codes(h.wfile) = << 200 >>

\* C10 (as claimed): on a login POST every body that is well-formed JSON,
\* objects or not, is answered 200 and never 400.
C10_WellFormedNever400 ==
    (LoginAnswered /\ IsJson(h.post_data)) => Codes(h.wfile) = << 200 >>

\* C10 (amended): on a login POST the 400 status is produced exactly for a
\* body that json.loads rejects or decodes to a value that is not an object
\* (array, string, number, null, true, false); every body that json.loads
\* decodes to an object, with or without email and password keys, is
\* answered 200 with the success or the invalid-credentials payload.
C10_Amended ==
    LoginAnswered =>
        IF IsDict(h.post_data)
        THEN /\ Codes(h.wfile) = << 200 >>
             /\ Len(Payloads(h.wfile)) = 1
             /\ \/ IsSuccessPayload(Payloads(h.wfile)[1])
                \/ IsFailurePayload(Payloads(h.wfile)[1])
        ELSE Codes(h.wfile) = << 400 >> /\ Payloads(h.wfile) = << >>

C10_Witness ==
    /\ LoginAnswered
    /\ h.post_data = << P("["), AdminEmail, P(","), AdminPassword, P("]") >>
    /\ Codes(h.wfile) = << 400 >>

====
